---- MODULE Spec2Model ----
(***************************************************************************)
(* A model of opensubtitles.py: the file fingerprint (hashFile), the       *)
(* selection of subtitles out of a SearchSubtitles answer                  *)
(* (search_subtitles) and the remote session run by                        *)
(* SubtitleDownload.__init__ (LogIn, SearchSubtitles, DownloadSubtitles,   *)
(* LogOut).                                                                *)
(*                                                                         *)
(* Strings that the program compares with each other (fingerprints and the *)
(* two sentinels hashFile returns in their place) are sequences of         *)
(* one-character strings, so that a formatted fingerprint and a sentinel   *)
(* are values of one kind.                                                 *)
(***************************************************************************)
EXTENDS Integers, Sequences, FiniteSets, TLC

VARIABLES
    \* ---- fingerprint engine (hashFile alone) ----
    file0,              \* the file as first hashed
    file,               \* the file as it is on disk now
    ret0,               \* what hashFile returned for file0
    ret,                \* what hashFile returned for the file after the edits
    edits,              \* the kinds of edit applied to the file since ret0
    handles,            \* file objects opened by hashFile and not closed
    hpc,                \* position of the fingerprint scenario
    \* ---- selection and session ----
    found,              \* the movie files the traversal of __init__ selects
    moviefiles,         \* self.moviefiles
    login_token,        \* self.login_token
    search,             \* the list handed to SearchSubtitles
    respData,           \* resp['data'] of the SearchSubtitles answer
    subtitles,          \* the list `subtitles` of search_subtitles
    downloadable_subs,  \* the list `downloadable_subs` of search_subtitles
    idx,                \* position of the download loop in downloadable_subs
    calls,              \* the remote calls issued so far, with their answers
    written,            \* the subtitle files on disk: path -> content
    report,             \* what the except clauses of __init__ printed
    pc                  \* position of __init__

hashVars == <<file0, file, ret0, ret, edits, handles, hpc>>
sessVars == <<found, moviefiles, login_token, search, respData, subtitles,
              downloadable_subs, idx, calls, written, report, pc>>
vars == <<file0, file, ret0, ret, edits, handles, hpc,
          found, moviefiles, login_token, search, respData, subtitles,
          downloadable_subs, idx, calls, written, report, pc>>

None == <<>>

(***************************************************************************)
(* Python integers.  A Python int is unbounded and `&` acts on its         *)
(* infinite two's complement form.  The model keeps NLimbs digits of base  *)
(* 2^16, least significant first, in two's complement: exact for every     *)
(* value of magnitude below 2^(16*NLimbs - 1), which hashFile never        *)
(* approaches (its accumulator stays below 2^64 + 2^63 in magnitude).      *)
(***************************************************************************)
NLimbs == 6

Base == 256 * 256

Limbs == 1 .. NLimbs

\* the int of a small natural number (a file size)
FromNat(n) == [k \in Limbs |-> CASE k = 1 -> n % Base
                                 [] k = 2 -> (n \div Base) % Base
                                 [] OTHER -> 0]

IsNeg(a) == a[NLimbs] >= Base \div 2

RECURSIVE Carry(_, _, _)
\* the carry into digit k of a + b
Carry(a, b, k) == IF k = 1 THEN 0
                  ELSE (a[k - 1] + b[k - 1] + Carry(a, b, k - 1)) \div Base

\* a + b
PyAdd(a, b) == [k \in Limbs |-> (a[k] + b[k] + Carry(a, b, k)) % Base]

\* 0xFFFFFFFFFFFFFFFF
Mask64 == [k \in Limbs |-> IF k <= 4 THEN Base - 1 ELSE 0]

\* a & m, for a mask m whose digits are all ones or all zeros
PyAnd(a, m) == [k \in Limbs |-> IF m[k] = Base - 1 THEN a[k] ELSE 0]

\* -a
PyNeg(a) == PyAdd([k \in Limbs |-> Base - 1 - a[k]], FromNat(1))

HexChars == <<"0", "1", "2", "3", "4", "5", "6", "7",
              "8", "9", "a", "b", "c", "d", "e", "f">>

HexDigitSet == {HexChars[i] : i \in 1 .. 16}

\* the four hex digits of one base-2^16 digit, most significant first
LimbHex(d) == <<HexChars[(d \div 4096) + 1], HexChars[((d \div 256) % 16) + 1],
                HexChars[((d \div 16) % 16) + 1], HexChars[(d % 16) + 1]>>

RECURSIVE AllHex(_, _)
\* the hex digits of digits k, k-1, .. 1 of a
AllHex(a, k) == IF k = 0 THEN <<>> ELSE LimbHex(a[k]) \o AllHex(a, k - 1)

RECURSIVE StripTo(_, _)
\* drop leading zeros while more than `width` characters are left
StripTo(s, width) == IF Len(s) > width /\ Head(s) = "0"
                     THEN StripTo(Tail(s), width) ELSE s

\* "%016x" % a : at least 16 hex digits, zero padded, a minus sign for a < 0
Format016x(a) == IF IsNeg(a)
                 THEN <<"-">> \o StripTo(AllHex(PyNeg(a), NLimbs), 15)
                 ELSE StripTo(AllHex(a, NLimbs), 16)

(***************************************************************************)
(* Files.  A file is its size, the bytes that are not zero (offset ->      *)
(* value; every other byte below the size is zero) and the step of         *)
(* hashFile at which the operating system reports an I/O error, if any.    *)
(***************************************************************************)
ByteAt(f, o) == IF o \in DOMAIN f.bytes THEN f.bytes[o] ELSE 0

\* struct.calcsize('q')
bytesize == 8

\* the window hashFile reads at each end of the file
ChunkSize == 65536

\* f.read(bytesize) at offset pos
ReadAt(f, pos) == [i \in 1 .. bytesize |-> ByteAt(f, pos + i - 1)]

\* struct.unpack('q', buffer): a signed 8-byte integer, least significant
\* byte first, sign-extended to the int
Unpack(buffer) ==
    [k \in Limbs |-> IF k <= bytesize \div 2
                     THEN buffer[2 * k - 1] + 256 * buffer[2 * k]
                     ELSE IF buffer[bytesize] >= 128 THEN Base - 1 ELSE 0]

\* a string of exactly 16 lowercase hex digits
IsFingerprintOf(h) == Len(h) = 16 /\ \A i \in 1 .. 16 : h[i] \in HexDigitSet

SizeErrorStr == <<"S", "i", "z", "e", "E", "r", "r", "o", "r">>
IOErrorStr == <<"I", "O", "E", "r", "r", "o", "r">>

SetMin(S) == CHOOSE x \in S : \A y \in S : x <= y

\* the reads of one loop of hashFile that return a word other than zero
NonZeroReads(f, start) ==
    {(o - start) \div bytesize :
        o \in {p \in DOMAIN f.bytes : p >= start /\ p < start + ChunkSize}}

\* Accumulate as it would be with the mask left out.
AccumulateNoMask(hash, l_value) == PyAdd(hash, l_value)

\* hash += l_value ; hash = hash & 0xFFFFFFFFFFFFFFFF
Accumulate(hash, l_value) == PyAnd(PyAdd(hash, l_value), Mask64)

RECURSIVE ReadLoop(_, _, _, _)
\* for x in range(65536//bytesize): read, unpack, accumulate.  The file
\* position after x reads is start + x * bytesize.  A read of eight zero
\* bytes leaves the accumulator as it is (it is already masked, or is the
\* file size), so only the reads in xs, those of NonZeroReads, are stepped
\* through, in their order.
ReadLoop(f, start, xs, hash) ==
    IF xs = {} THEN hash
    ELSE LET x == SetMin(xs)
         IN ReadLoop(f, start, xs \ {x},
                     Accumulate(hash, Unpack(ReadAt(f, start + x * bytesize))))

Max(a, b) == IF a >= b THEN a ELSE b

\* SeekPos as it would be with the last window starting one word early.
SeekPosShifted(filesize) == Max(0, filesize - ChunkSize - bytesize)

\* f.seek(max(0, filesize - 65536), 0)
SeekPos(filesize) == Max(0, filesize - ChunkSize)

\* hashFile(name), with fault the step at which an IOError is raised:
\* ret is the value returned, leaked whether the file object that open()
\* returned was left without f.close()
hashFile(f, fault) ==
    IF fault = "open" THEN [ret |-> IOErrorStr, leaked |-> FALSE]
    ELSE IF f.size < ChunkSize * 2 THEN [ret |-> SizeErrorStr, leaked |-> TRUE]
    ELSE IF fault \in {"read", "seek"} THEN [ret |-> IOErrorStr, leaked |-> TRUE]
    ELSE LET h1 == ReadLoop(f, 0, NonZeroReads(f, 0), FromNat(f.size))
             p2 == SeekPos(f.size)
             h2 == ReadLoop(f, p2, NonZeroReads(f, p2), h1)
         IN [ret |-> Format016x(h2), leaked |-> FALSE]

(***************************************************************************)
(* Strings: upper(), str() and int() as the program applies them.          *)
(***************************************************************************)
LowerChars == <<"a", "b", "c", "d", "e", "f", "g", "h", "i", "j", "k", "l", "m",
                "n", "o", "p", "q", "r", "s", "t", "u", "v", "w", "x", "y", "z">>
UpperChars == <<"A", "B", "C", "D", "E", "F", "G", "H", "I", "J", "K", "L", "M",
                "N", "O", "P", "Q", "R", "S", "T", "U", "V", "W", "X", "Y", "Z">>

UpperChar(c) == IF \E i \in 1 .. 26 : LowerChars[i] = c
                THEN UpperChars[CHOOSE i \in 1 .. 26 : LowerChars[i] = c]
                ELSE c

\* s.upper()
Upper(s) == [i \in 1 .. Len(s) |-> UpperChar(s[i])]

DecChars == <<"0", "1", "2", "3", "4", "5", "6", "7", "8", "9">>

RECURSIVE Str(_)
\* str(n) for n >= 0
Str(n) == IF n < 10 THEN <<DecChars[n + 1]>>
          ELSE Str(n \div 10) \o <<DecChars[(n % 10) + 1]>>

RECURSIVE ParseDigits(_, _)
ParseDigits(s, acc) ==
    IF s = <<>> THEN acc
    ELSE ParseDigits(Tail(s),
                     10 * acc + (CHOOSE d \in 0 .. 9 : DecChars[d + 1] = Head(s)))

\* int(s) for a decimal numeral with an optional sign
ParseInt(s) == IF Head(s) = "-" THEN 0 - ParseDigits(Tail(s), 0)
               ELSE ParseDigits(s, 0)

(***************************************************************************)
(* search_subtitles: the selection of the subtitles to download            *)
(***************************************************************************)
\* PassesFilter as it would be with the bad-flag not looked at.
PassesFilterAll(result) == TRUE

\* if int(result['SubBad']) != 1
PassesFilter(result) == ParseInt(result.SubBad) # 1

RECURSIVE FilterBad(_)
\* subtitles = [] ; for result in resp['data']: if ...: subtitles.append(...)
FilterBad(data) ==
    IF data = <<>> THEN <<>>
    ELSE (IF PassesFilter(Head(data))
          THEN <<[subid |-> Head(data).IDSubtitleFile, hash |-> Head(data).MovieHash]>>
          ELSE <<>>) \o FilterBad(Tail(data))

\* list.remove(x): the first item equal to x is removed.  Every call of
\* search_subtitles finds one (CHOOSE has no value otherwise).
ListRemove(l, x) ==
    LET i == CHOOSE j \in 1 .. Len(l) :
                 l[j] = x /\ \A k \in 1 .. j - 1 : l[k] # x
    IN SubSeq(l, 1, i - 1) \o SubSeq(l, i + 1, Len(l))

\* if hash == s['hash']
SameAsPrevious(hash, s) == hash = s.hash

\* HashAfter as it would be with the hash of the record just seen not kept.
HashAfterStale(s) == None

\* hash = s['hash']
HashAfter(s) == s.hash

RECURSIVE DedupLoop(_, _, _, _)
\* for s in subtitles: if hash == s['hash']: downloadable_subs.remove(s)
\*                     hash = s['hash']
DedupLoop(subs, i, hash, dl) ==
    IF i > Len(subs) THEN dl
    ELSE DedupLoop(subs, i + 1, HashAfter(subs[i]),
                   IF SameAsPrevious(hash, subs[i]) THEN ListRemove(dl, subs[i]) ELSE dl)

\* downloadable_subs = subtitles[:] ; hash = None ; the loop
Dedup(subs) == DedupLoop(subs, 1, None, subs)

(***************************************************************************)
(* The selection on its own, applied to an arbitrary SearchSubtitles       *)
(* answer.                                                                 *)
(***************************************************************************)
\* at most this many records in an answer given to the selection alone
MaxRecords == 4

FileA == [size |-> 2 * ChunkSize, bytes |-> (7 :> 128)]
FileB == [size |-> 2 * ChunkSize + 3, bytes |-> (2 * ChunkSize + 2 :> 255)]
FileD == [size |-> 2 * ChunkSize, bytes |-> (7 :> 255 @@ 15 :> 1 @@ ChunkSize :> 1)]
FileS == [size |-> 100, bytes |-> (7 :> 1)]

HashA == hashFile(FileA, "none").ret
HashB == hashFile(FileB, "none").ret

SelRecords == [MovieHash : {HashA, HashB}, IDSubtitleFile : {"s1", "s2"},
               SubBad : {<<"0">>, <<"1">>}]

SeqsUpTo(S, n) == UNION {[1 .. k -> S] : k \in 0 .. n}

hashIdle ==
    /\ file0 = None /\ file = None /\ ret0 = None /\ ret = None
    /\ edits = <<>> /\ handles = 0 /\ hpc = "idle"

InitSelect ==
    /\ respData \in SeqsUpTo(SelRecords, MaxRecords)
    /\ subtitles = <<>> /\ downloadable_subs = <<>>
    /\ found = <<>> /\ moviefiles = <<>> /\ login_token = "None" /\ search = <<>>
    /\ idx = 0 /\ calls = <<>> /\ written = <<>> /\ report = "None"
    /\ pc = "select"
    /\ hashIdle

\* lines 88-99 of search_subtitles
Select ==
    /\ pc = "select"
    /\ subtitles' = FilterBad(respData)
    /\ downloadable_subs' = Dedup(FilterBad(respData))
    /\ pc' = "selected"
    /\ UNCHANGED <<found, moviefiles, login_token, search, respData, idx, calls,
                   written, report>>
    /\ UNCHANGED hashVars

NextSelect == Select

SpecSelect == InitSelect /\ [][NextSelect]_vars

\* records with equal fingerprints are next to each other, as they are in
\* an answer sorted by fingerprint
Grouped(subs) ==
    \A i, j, k \in 1 .. Len(subs) :
        (i < j /\ j < k /\ subs[i].hash = subs[k].hash) => subs[j].hash = subs[i].hash

NoTwoSameHash(dl) ==
    \A i, j \in 1 .. Len(dl) : dl[i].hash = dl[j].hash => i = j

\* C1 as stated: for every answer, in any order, downloadable_subs never
\* holds two entries with the same fingerprint.
C1_NoDuplicateAnyOrder == pc = "selected" => NoTwoSameHash(downloadable_subs)

\* C1 as amended: when the records that pass the bad-flag filter have equal
\* fingerprints next to each other, downloadable_subs never holds two
\* entries with the same fingerprint.
C1_NoDuplicateGrouped ==
    (pc = "selected" /\ Grouped(subtitles)) => NoTwoSameHash(downloadable_subs)

C1_Witness ==
    /\ pc = "selected" /\ Grouped(subtitles)
    /\ Len(subtitles) = 4 /\ Len(downloadable_subs) = 2
    /\ subtitles[1] = subtitles[2]

RECURSIVE RefDedup(_, _)
\* the records of subs from position i on whose fingerprint differs from
\* that of the record right before them
RefDedup(subs, i) ==
    IF i > Len(subs) THEN <<>>
    ELSE (IF i > 1 /\ subs[i].hash = subs[i - 1].hash THEN <<>> ELSE <<subs[i]>>)
         \o RefDedup(subs, i + 1)

\* C2: downloadable_subs is the filtered sequence with every record removed
\* whose fingerprint equals that of the record right before it: the first
\* record of each run survives, in the order of the filtered sequence.
C2_AdjacentDedup == pc = "selected" => downloadable_subs = RefDedup(subtitles, 1)

(***************************************************************************)
(* The session of SubtitleDownload.__init__.  The directory tree holds     *)
(* some of the files of Disk; `found` lists, in the order of the walk, the *)
(* ones that is_movie accepts and subtitles_already_present does not       *)
(* reject.  The server's answers are inputs: a status for each call or an  *)
(* xmlrpc Error, and for SearchSubtitles the rows of resp['data'] (or      *)
(* False).  The payload of a DownloadSubtitles answer is taken to be well  *)
(* formed; decoded and decompressed it is the text of the subtitle, which  *)
(* the model names by the subtitle id.                                     *)
(***************************************************************************)
\* at most this many movie files are found by the walk
MaxFiles == 2

\* at most this many rows in resp['data']
MaxResp == 2

Disk == <<[file |-> "a.avi", stem |-> "a", content |-> FileA, fault |-> "none"],
          [file |-> "b.mkv", stem |-> "b", content |-> FileB, fault |-> "none"],
          [file |-> "d.mp4", stem |-> "d", content |-> FileD, fault |-> "none"],
          [file |-> "s.avi", stem |-> "s", content |-> FileS, fault |-> "none"],
          [file |-> "u.avi", stem |-> "u", content |-> FileB, fault |-> "open"]>>

RECURSIVE Pick(_, _)
\* the files of Disk at the positions of I, from position i on, in order
Pick(I, i) == IF i > Len(Disk) THEN <<>>
              ELSE (IF i \in I THEN <<Disk[i]>> ELSE <<>>) \o Pick(I, i + 1)

Trees == {Pick(I, 1) : I \in {J \in SUBSET (1 .. Len(Disk)) : Cardinality(J) <= MaxFiles}}

StatusOK == <<"2", "0", "0", " ", "O", "K">>
StatusOKLower == <<"2", "0", "0", " ", "o", "k">>
Status401 == <<"4", "0", "1", " ", "U", "n", "a", "u", "t", "h", "o", "r", "i", "z", "e", "d">>

\* what a remote call comes back with: a response with a status, or an
\* xmlrpc Error raised by the proxy
Answers == {[fault |-> FALSE, status |-> StatusOK],
            [fault |-> FALSE, status |-> StatusOKLower],
            [fault |-> FALSE, status |-> Status401],
            [fault |-> TRUE, status |-> <<>>]}

ServerRecords ==
    {[MovieHash |-> HashA, IDSubtitleFile |-> "s1", SubBad |-> <<"0">>],
     [MovieHash |-> HashA, IDSubtitleFile |-> "s2", SubBad |-> <<"1">>],
     [MovieHash |-> HashA, IDSubtitleFile |-> "s3", SubBad |-> <<"2">>],
     [MovieHash |-> HashB, IDSubtitleFile |-> "s4", SubBad |-> <<"0">>],
     [MovieHash |-> HashB, IDSubtitleFile |-> "s5", SubBad |-> <<"-", "1">>]}

\* resp['data']: False, or the rows
DataChoices == {[isFalse |-> TRUE, rows |-> <<>>]}
               \cup {[isFalse |-> FALSE, rows |-> r] : r \in SeqsUpTo(ServerRecords, MaxResp)}

NoArg == [subid |-> "", hash |-> <<>>]

Call(name, arg, answer) ==
    [call |-> name, arg |-> arg, fault |-> answer.fault, status |-> answer.status]

\* check_status as it would be with the status not looked at.
check_statusNever(resp) == FALSE

\* check_status(resp): TRUE when it raises the UserWarning
check_status(resp) == Upper(resp.status) # StatusOK

\* what the except clauses of __init__ print for a call that did not succeed
Reported(answer) == IF answer.fault THEN "XML-RPC error" ELSE "UserWarning"

\* the call raised: an xmlrpc Error from the proxy or the UserWarning
Raised(answer) == answer.fault \/ check_status(answer)

Init ==
    /\ found \in Trees
    /\ moviefiles = <<>> /\ login_token = "None" /\ search = <<>>
    /\ respData = [isFalse |-> FALSE, rows |-> <<>>]
    /\ subtitles = <<>> /\ downloadable_subs = <<>>
    /\ idx = 0 /\ calls = <<>> /\ written = <<>> /\ report = "None"
    /\ pc = "walk"
    /\ hashIdle

\* __init__, the walk: every movie file found is hashed and appended
Walk ==
    /\ pc = "walk"
    /\ moviefiles' = [i \in 1 .. Len(found) |->
                         [file |-> found[i].file,
                          stem |-> found[i].stem,
                          hash |-> hashFile(found[i].content, found[i].fault).ret,
                          size |-> found[i].content.size,
                          subtitleid |-> None]]
    /\ pc' = "login"
    /\ UNCHANGED <<found, login_token, search, respData, subtitles,
                   downloadable_subs, idx, calls, written, report>>
    /\ UNCHANGED hashVars

\* login()
Login(answer) ==
    /\ pc = "login"
    /\ calls' = Append(calls, Call("LogIn", NoArg, answer))
    /\ IF Raised(answer)
       THEN /\ report' = Reported(answer)
            /\ pc' = "done"
            /\ UNCHANGED login_token
       ELSE /\ login_token' = "token"
            /\ pc' = "search"
            /\ UNCHANGED report
    /\ UNCHANGED <<found, moviefiles, search, respData, subtitles,
                   downloadable_subs, idx, written>>
    /\ UNCHANGED hashVars

\* search = [] ; for movie in self.moviefiles: search.append(...)
\* if len(search) == 1: search.append(search[0])
SearchList ==
    LET s == [i \in 1 .. Len(moviefiles) |->
                 [sublanguageid |-> "en",
                  moviehash |-> moviefiles[i].hash,
                  moviebytesize |-> Str(moviefiles[i].size)]]
    IN IF Len(s) = 1 THEN Append(s, s[1]) ELSE s

AfterLoop(dl, i) == IF i > Len(dl) THEN "logout" ELSE "download"

\* search_subtitles() up to the download loop
Search(answer, data) ==
    /\ pc = "search"
    /\ search' = SearchList
    /\ calls' = Append(calls, Call("SearchSubtitles", NoArg, answer))
    /\ IF Raised(answer)
       THEN /\ report' = Reported(answer)
            /\ pc' = "done"
            /\ UNCHANGED <<respData, subtitles, downloadable_subs, idx>>
       ELSE /\ respData' = data
            /\ UNCHANGED report
            /\ IF data.isFalse
               THEN /\ pc' = "logout"
                    /\ UNCHANGED <<subtitles, downloadable_subs, idx>>
               ELSE /\ subtitles' = FilterBad(data.rows)
                    /\ downloadable_subs' = Dedup(FilterBad(data.rows))
                    /\ idx' = 1
                    /\ pc' = AfterLoop(Dedup(FilterBad(data.rows)), 1)
    /\ UNCHANGED <<found, moviefiles, login_token, written>>
    /\ UNCHANGED hashVars

\* MovieMatches as it would be with the subtitle saved for every movie.
MovieMatchesAny(movie, ds) == TRUE

\* if movie['hash'] == ds['hash']
MovieMatches(movie, ds) == movie.hash = ds.hash

RECURSIVE Saves(_, _)
\* for movie in self.moviefiles: if ...: open, write, close
Saves(ds, i) ==
    IF i > Len(moviefiles) THEN <<>>
    ELSE (IF MovieMatches(moviefiles[i], ds)
          THEN <<[path |-> moviefiles[i].stem, ext |-> ".srt",
                  content |-> ds.subid, hash |-> ds.hash]>>
          ELSE <<>>) \o Saves(ds, i + 1)

\* one turn of `for ds in downloadable_subs`: download_subtitles(ds), then
\* the subtitle is written next to every movie with that hash
Download(answer) ==
    /\ pc = "download"
    /\ LET ds == downloadable_subs[idx]
       IN /\ calls' = Append(calls, Call("DownloadSubtitles", ds, answer))
          /\ IF Raised(answer)
             THEN /\ report' = Reported(answer)
                  /\ pc' = "done"
                  /\ UNCHANGED <<written, idx>>
             ELSE /\ written' = written \o Saves(ds, 1)
                  /\ idx' = idx + 1
                  /\ pc' = AfterLoop(downloadable_subs, idx + 1)
                  /\ UNCHANGED report
    /\ UNCHANGED <<found, moviefiles, login_token, search, respData, subtitles,
                   downloadable_subs>>
    /\ UNCHANGED hashVars

\* logout()
Logout(answer) ==
    /\ pc = "logout"
    /\ calls' = Append(calls, Call("LogOut", NoArg, answer))
    /\ report' = IF Raised(answer) THEN Reported(answer) ELSE report
    /\ pc' = "done"
    /\ UNCHANGED <<found, moviefiles, login_token, search, respData, subtitles,
                   downloadable_subs, idx, written>>
    /\ UNCHANGED hashVars

Next ==
    \/ Walk
    \/ \E answer \in Answers : Login(answer)
    \/ \E answer \in Answers, data \in DataChoices : Search(answer, data)
    \/ \E answer \in Answers : Download(answer)
    \/ \E answer \in Answers : Logout(answer)

Spec == Init /\ [][Next]_vars

(***************************************************************************)
(* Properties of the session                                               *)
(***************************************************************************)
Fetches == {i \in 1 .. Len(calls) : calls[i].call = "DownloadSubtitles"}

Writes == 1 .. Len(written)

Rows == 1 .. Len(respData.rows)

Requested == {moviefiles[i].hash : i \in 1 .. Len(moviefiles)}

\* row r of the answer is the record that ds was made from
RowOf(r, ds) ==
    /\ respData.rows[r].MovieHash = ds.hash
    /\ respData.rows[r].IDSubtitleFile = ds.subid

\* C3 as stated: a record is fetched or written only if its SubBad is the
\* literal not-bad value 0; any other value (1, 2, -1) keeps it out.
C3_OnlyZeroSelected ==
    /\ \A i \in Fetches :
          \E r \in Rows : RowOf(r, calls[i].arg) /\ respData.rows[r].SubBad = <<"0">>
    /\ \A w \in Writes :
          \E r \in Rows : /\ respData.rows[r].MovieHash = written[w].hash
                          /\ respData.rows[r].IDSubtitleFile = written[w].content
                          /\ respData.rows[r].SubBad = <<"0">>

\* C3 as amended: a record whose SubBad is not 1 passes the filter, and a
\* record is fetched or written only if its SubBad is not 1; a record flagged 1 is never
\* fetched and never written, even when it is the only record for its
\* fingerprint.
C3_FlagOneNeverSelected ==
    /\ \A r \in Rows :
          respData.rows[r].SubBad # <<"1">> =>
              \E k \in 1 .. Len(subtitles) :
                  /\ subtitles[k].hash = respData.rows[r].MovieHash
                  /\ subtitles[k].subid = respData.rows[r].IDSubtitleFile
    /\ \A i \in Fetches :
          \E r \in Rows : RowOf(r, calls[i].arg) /\ respData.rows[r].SubBad # <<"1">>
    /\ \A w \in Writes :
          \E r \in Rows : /\ respData.rows[r].MovieHash = written[w].hash
                          /\ respData.rows[r].IDSubtitleFile = written[w].content
                          /\ respData.rows[r].SubBad # <<"1">>

\* the run is over without an error, the only record for a requested
\* fingerprint was flagged 1 and another record was fetched and written
C3_Witness ==
    /\ pc = "done" /\ report = "None" /\ Writes # {}
    /\ \E r \in Rows :
          /\ respData.rows[r].SubBad = <<"1">>
          /\ respData.rows[r].MovieHash \in Requested
          /\ \A q \in Rows : respData.rows[q].MovieHash = respData.rows[r].MovieHash => q = r
          /\ \A i \in Fetches : calls[i].arg.hash # respData.rows[r].MovieHash

C5_SearchHasOnlyFingerprints ==
    \A i \in 1 .. Len(search) : IsFingerprintOf(search[i].moviehash)

\* C8: in every run in which login succeeded a logout call is made before
\* the run is done, also when the search or a download failed.
C8_LogoutAttempted ==
    (pc = "done" /\ login_token # "None") =>
        \E i \in 1 .. Len(calls) : calls[i].call = "LogOut"

AnsweredNot200OK == \E i \in 1 .. Len(calls) : calls[i].fault \/ calls[i].status # StatusOK

AnsweredNot200OKAnyCase ==
    \E i \in 1 .. Len(calls) : calls[i].fault \/ Upper(calls[i].status) # StatusOK

MaxNonzero == 2

\* at most this many edits are applied to a file
MaxEdits == 1

Sizes == {100, 2 * ChunkSize - 1, 2 * ChunkSize, 2 * ChunkSize + 3}

ByteValues == {1, 128, 255}

Faults == {"none", "open", "read", "seek"}

InsertLens == {1, bytesize}

InterestingOffsets(s) ==
    {o \in {7, 15, ChunkSize - 1, ChunkSize + 1, s - ChunkSize, s - 1} : o >= 0 /\ o < s}

BytesFor(s) ==
    UNION {[S -> ByteValues] :
              S \in {T \in SUBSET InterestingOffsets(s) : Cardinality(T) <= MaxNonzero}}

InitFiles == UNION {{[size |-> s, bytes |-> b] : b \in BytesFor(s)} : s \in Sizes}

\* the offsets strictly between 65536 and size - 65536 that the edits use:
\* the first and the last of them
MiddleOffsets(f) ==
    {o \in {ChunkSize + 1, f.size - ChunkSize - 1} :
        o > ChunkSize /\ o < f.size - ChunkSize}

\* the file with byte o overwritten by b
Overwrite(f, o, b) ==
    [f EXCEPT !.bytes = [p \in (DOMAIN f.bytes \ {o}) \cup (IF b = 0 THEN {} ELSE {o})
                           |-> IF p = o THEN b ELSE f.bytes[p]]]

\* the file with n zero bytes inserted before offset o
InsertZeros(f, o, n) ==
    [size |-> f.size + n,
     bytes |-> [p \in {IF q >= o THEN q + n ELSE q : q \in DOMAIN f.bytes}
                  |-> IF p >= o + n THEN f.bytes[p - n] ELSE f.bytes[p]]]

sessIdle ==
    /\ found = <<>> /\ moviefiles = <<>> /\ login_token = "None" /\ search = <<>>
    /\ respData = <<>> /\ subtitles = <<>> /\ downloadable_subs = <<>>
    /\ idx = 0 /\ calls = <<>> /\ written = <<>> /\ report = "None"
    /\ pc = "idle"

InitHash ==
    /\ file0 \in InitFiles
    /\ file = file0
    /\ ret0 = None /\ ret = None
    /\ edits = <<>>
    /\ handles = 0
    /\ hpc = "start"
    /\ sessIdle

HashOriginal(fault) ==
    /\ hpc = "start"
    /\ LET r == hashFile(file, fault)
       IN /\ ret0' = r.ret
          /\ handles' = handles + (IF r.leaked THEN 1 ELSE 0)
    /\ hpc' = "hashed"
    /\ UNCHANGED <<file0, file, ret, edits>>
    /\ UNCHANGED sessVars

ModifyMiddle(o, b) ==
    /\ hpc = "hashed"
    /\ Len(edits) < MaxEdits
    /\ o \in MiddleOffsets(file)
    /\ file' = Overwrite(file, o, b)
    /\ edits' = Append(edits, "modify")
    /\ UNCHANGED <<file0, ret0, ret, handles, hpc>>
    /\ UNCHANGED sessVars

InsertMiddle(o, n) ==
    /\ hpc = "hashed"
    /\ Len(edits) < MaxEdits
    /\ o \in MiddleOffsets(file)
    /\ file' = InsertZeros(file, o, n)
    /\ edits' = Append(edits, "insert")
    /\ UNCHANGED <<file0, ret0, ret, handles, hpc>>
    /\ UNCHANGED sessVars

HashAgain(fault) ==
    /\ hpc = "hashed"
    /\ LET r == hashFile(file, fault)
       IN /\ ret' = r.ret
          /\ handles' = handles + (IF r.leaked THEN 1 ELSE 0)
    /\ hpc' = "rehashed"
    /\ UNCHANGED <<file0, file, ret0, edits>>
    /\ UNCHANGED sessVars

NextHash ==
    \/ \E fault \in Faults : HashOriginal(fault)
    \/ \E o \in MiddleOffsets(file), b \in {0, 255} : ModifyMiddle(o, b)
    \/ \E o \in MiddleOffsets(file), n \in InsertLens : InsertMiddle(o, n)
    \/ \E fault \in Faults : HashAgain(fault)

SpecHash == InitHash /\ [][NextHash]_vars

(***************************************************************************)
(* Properties of the fingerprint engine                                    *)
(***************************************************************************)
RECURSIVE SignedSum(_, _, _, _)
\* acc plus the signed words read at start + x * bytesize, x in xs, with no
\* masking in between
SignedSum(f, start, xs, acc) ==
    IF xs = {} THEN acc
    ELSE LET x == SetMin(xs)
         IN SignedSum(f, start, xs \ {x},
                      PyAdd(acc, Unpack(ReadAt(f, start + x * bytesize))))

\* (size + the signed words of the first 65536 bytes + the signed words of
\* the 65536 bytes from size - 65536 on) modulo 2^64: the low 64 bits
RefValue(f) ==
    LET total == SignedSum(f, f.size - ChunkSize, NonZeroReads(f, f.size - ChunkSize),
                           SignedSum(f, 0, NonZeroReads(f, 0), FromNat(f.size)))
    IN [k \in 1 .. 4 |-> total[k]]

\* hex digit i (1 the most significant) of a value of four base-2^16 digits
RefHex16(v) ==
    [i \in 1 .. 16 |->
        HexChars[((v[4 - ((i - 1) \div 4)] \div (16 ^ (3 - ((i - 1) % 4)))) % 16) + 1]]

\* C6: for a readable file of at least 131072 bytes hashFile returns
\* (size + signed words of the first window + signed words of the last
\* window) modulo 2^64, as exactly 16 lowercase hex digits.
C6_HashValue ==
    (hpc \in {"hashed", "rehashed"} /\ file0.size >= 2 * ChunkSize /\ ret0 # IOErrorStr)
        => /\ ret0 = RefHex16(RefValue(file0))
           /\ IsFingerprintOf(ret0)

\* a hashed file whose accumulator went below zero and above 2^64 - 1 on
\* the way: 0xFF at offset 7 adds -2^56, 0x01 at offset 15 adds 2^56
C6_Witness ==
    /\ hpc = "hashed" /\ file0.size = 2 * ChunkSize
    /\ DOMAIN file0.bytes = {7, 15}
    /\ file0.bytes[7] = 255 /\ file0.bytes[15] = 1
    /\ ret0 = RefHex16(FromNat(2 * ChunkSize))

OnlyModified == \A i \in 1 .. Len(edits) : edits[i] = "modify"

BothHashed ==
    /\ hpc = "rehashed" /\ file0.size >= 2 * ChunkSize
    /\ ret0 # IOErrorStr /\ ret # IOErrorStr

\* C7 as stated: appending (inserting) or modifying bytes strictly between
\* offset 65536 and offset size - 65536 does not change the fingerprint.
C7_AnyMiddleEdit == BothHashed => ret = ret0

\* C7 as amended: overwriting bytes in place strictly between offset 65536
\* and offset size - 65536, the size staying as it is, does not change the
\* fingerprint.
C7_MiddleInvariance == (BothHashed /\ OnlyModified) => ret = ret0

C7_Witness ==
    /\ BothHashed /\ OnlyModified /\ Len(edits) > 0
    /\ file # file0 /\ ret = ret0 /\ IsFingerprintOf(ret)

\* C10: on every return path of hashFile the file object it opened has been
\* closed, so no handle is left open after any sequence of calls.
C10_NoOpenHandle == handles = 0

====
